---- MODULE Spec2Model ----
(***************************************************************************)
(* The slide presentation engine of src/app.js (class SlidePresentation):  *)
(* the deck cursor and its persisted progress cookie, the texture cache,   *)
(* the throw / slide-in animation loops driven by requestAnimationFrame,   *)
(* and the suspended async calls (init, onSlideThrowComplete) that wait on *)
(* texture fetches.                                                        *)
(*                                                                         *)
(* JavaScript runs one callback at a time.  A callback, together with the  *)
(* promise continuations (microtasks) it makes runnable, is one atomic     *)
(* step.  An `await` on a texture that is already cached resumes in a      *)
(* microtask, so it does not end the step; an `await` on fetch() suspends  *)
(* the caller until the network answers, and any event may run meanwhile.  *)
(***************************************************************************)
EXTENDS Integers, Sequences, FiniteSets, TLC

(* ------------------------------------------------------------------ *)
(* CONFIG (src/app.js:8-42)                                             *)
(* ------------------------------------------------------------------ *)
WINDOW_GAP == 100
THROW_DURATION == 500
SLIDE_IN_DURATION == 300
SLIDES_TO_PRELOAD == 5
COOKIE_EXPIRY_DAYS == 365
PROGRESS_COOKIE_NAME == "slideProgress"

(* ------------------------------------------------------------------ *)
(* Bounds of the model                                                  *)
(* ------------------------------------------------------------------ *)
\* Largest manifest (number of slides) considered.
MaxSlides == 2
\* Granularity of the frame clock, in milliseconds.
TickMs == 250
\* Longest gap between two animation frames, in ticks.
MaxFrameTicks == 2
\* Most transitions (frame loops plus suspended completions) the user lets pile up.
MaxInFlight == 2

(* ------------------------------------------------------------------ *)
(* Values                                                               *)
(* ------------------------------------------------------------------ *)
\* The element of a one-element set.  An operator below that uses an argument
\* more than once names its value first, as { e : x \in {argument} }.
The(S) == CHOOSE x \in S : TRUE

\* slides[index] for an index outside the array: the path `undefined`.
UndefinedPath == 0
\* this.currentTexture = null
NoTexture == [path |-> 0]
\* A GPU texture, known by the path it was decoded from (the textures made from
\* one path are copies of each other; `uploads` counts them).
Texture(p) == [path |-> p]

\* Pixel size of the image file behind a path (the environment's data).
ImageWidth(p) == IF p % 2 = 0 THEN 1200 ELSE 1600
ImageHeight(p) == IF p % 2 = 0 THEN 600 ELSE 800

\* window.innerWidth / innerHeight values the browser window takes.
WindowSizes == {[w |-> 1000, h |-> 800], [w |-> 1400, h |-> 700]}
InitialWindow == [w |-> 1000, h |-> 800]

\* Outcomes of Math.random() in generateNextSlidePosition: (rotation in degrees,
\* offsets in hundredths), within the configured ranges.
Poses == {[rot |-> -4, x |-> 15, y |-> -20], [rot |-> 3, x |-> -10, y |-> 5]}
\* Outcomes of Math.random() in throwSlide: direction in tenths (length in
\* [2.5, 3.0)), rotation in degrees in [-360, 360).
Throws == {[x |-> 0, y |-> -27, rot |-> -360], [x |-> 20, y |-> 20, rot |-> 180]}

(* ------------------------------------------------------------------ *)
(* Text of the progress cookie: JSON.stringify / JSON.parse             *)
(* ------------------------------------------------------------------ *)
DigitChars == <<"0", "1", "2", "3", "4", "5", "6", "7", "8", "9">>
IsDigit(ch) == \E d \in 1..10 : DigitChars[d] = ch
DigitValue(ch) == (CHOOSE d \in 1..10 : DigitChars[d] = ch) - 1

RECURSIVE NatDigits(_)
NatDigits(n) ==
    IF n < 10 THEN <<DigitChars[n + 1]>>
    ELSE Append(NatDigits(n \div 10), DigitChars[(n % 10) + 1])

RECURSIVE DigitsValue(_)
DigitsValue(ds) ==
    IF Len(ds) = 0 THEN 0
    ELSE 10 * DigitsValue(SubSeq(ds, 1, Len(ds) - 1)) + DigitValue(ds[Len(ds)])

AllDigits(ds) == Len(ds) > 0 /\ \A i \in 1..Len(ds) : IsDigit(ds[i])
AllZero(ds) == \A i \in 1..Len(ds) : ds[i] = "0"

\* A JavaScript value held by currentSlideIndex: an integer, a non-integer number
\* (num is its integer part) or undefined.
JsInt(n) == [kind |-> "integer", num |-> n]
JsUndefined == [kind |-> "undefined", num |-> 0]

\* JSON.stringify of a number.
NumberText(v0) ==
    The({(
        CASE v.kind = "integer" ->
                IF v.num < 0 THEN <<"-">> \o NatDigits(0 - v.num) ELSE NatDigits(v.num)
          [] v.kind = "fraction" -> NatDigits(v.num) \o <<".", "5">>
          [] OTHER -> <<"null">>
    ) : v \in {v0}})

\* A writer that names the property "cursor", which loadProgress does not read.
StringifyCursor(v0) ==
    The({(
        IF v.kind = "undefined" THEN <<"{", "}">>
        ELSE <<"{", "\"cursor\"", ":">> \o NumberText(v) \o <<"}">>
    ) : v \in {v0}})

\* JSON.stringify({ current: v }): an undefined property is left out.
StringifyState(v0) ==
    The({(
        IF v.kind = "undefined" THEN <<"{", "}">>
        ELSE <<"{", "\"current\"", ":">> \o NumberText(v) \o <<"}">>
    ) : v \in {v0}})

\* The outcome of JSON.parse: ok = FALSE is a SyntaxError.
SyntaxError == [ok |-> FALSE, type |-> "error", key |-> "", val |-> JsUndefined]

\* A JSON number from its sign, integer digits and fraction digits.
NumberFrom(neg, ip0, fp0, hasDot) ==
    The({(
        IF AllDigits(ip) /\ (Len(ip) = 1 \/ ip[1] # "0") /\ (hasDot => AllDigits(fp))
        THEN [ok |-> TRUE,
              val |-> [kind |-> IF AllZero(fp) THEN "integer" ELSE "fraction",
                       num |-> IF neg THEN 0 - DigitsValue(ip) ELSE DigitsValue(ip)]]
        ELSE [ok |-> FALSE, val |-> JsUndefined]
    ) : <<ip, fp>> \in {<<ip0, fp0>>}})

\* Where the first "." of a text is (past its end when there is none).
FirstDot(body0) ==
    The({(
        LET dots == {i \in 1..Len(body) : body[i] = "."}
        IN  IF dots = {} THEN Len(body) + 1 ELSE CHOOSE i \in dots : \A j \in dots : i <= j
    ) : body \in {body0}})

SplitNumber(neg, body0, dot) ==
    The({(
        NumberFrom(neg, SubSeq(body, 1, dot - 1), SubSeq(body, dot + 1, Len(body)),
                   dot <= Len(body))
    ) : body \in {body0}})

\* A JSON number: [-] digits [. digits]
ParseNumber(t0) ==
    The({(
        IF Len(t) > 0 /\ t[1] = "-"
        THEN SplitNumber(TRUE, Tail(t), FirstDot(Tail(t)))
        ELSE SplitNumber(FALSE, t, FirstDot(t))
    ) : t \in {t0}})

ParsedNumber(num0, type, key) ==
    The({(
        IF num.ok THEN [ok |-> TRUE, type |-> type, key |-> key, val |-> num.val]
        ELSE SyntaxError
    ) : num \in {num0}})

\* The inside of { }: nothing, or "<key>": number.
ParseMembers(inner0) ==
    The({(
        CASE inner = <<>> -> [ok |-> TRUE, type |-> "object", key |-> "", val |-> JsUndefined]
          [] Len(inner) >= 3 /\ inner[2] = ":" /\ inner[1] \in {"\"current\"", "\"cursor\""} ->
                ParsedNumber(ParseNumber(SubSeq(inner, 3, Len(inner))), "object", inner[1])
          [] OTHER -> SyntaxError
    ) : inner \in {inner0}})

\* JSON.parse on the texts a progress cookie is given here: null, a number, {} or
\* {"<key>": number}.
JsonParse(t0) ==
    The({(
        CASE t = <<"null">> -> [ok |-> TRUE, type |-> "null", key |-> "", val |-> JsUndefined]
          [] Len(t) >= 2 /\ t[1] = "{" /\ t[Len(t)] = "}" -> ParseMembers(SubSeq(t, 2, Len(t) - 1))
          [] OTHER -> ParsedNumber(ParseNumber(t), "number", "")
    ) : t \in {t0}})

(* ------------------------------------------------------------------ *)
(* document.cookie                                                      *)
(* ------------------------------------------------------------------ *)
\* document.cookie = `${name}=${value};expires=...;path=/`: the browser replaces
\* the cookie of that name, or adds it.
setCookie(cookies0, name, value, days) ==
    The({(
        LET c == [name |-> name, value |-> value, days |-> days]
        IN  IF \E i \in 1..Len(cookies) : cookies[i].name = name
            THEN [i \in 1..Len(cookies) |-> IF cookies[i].name = name THEN c ELSE cookies[i]]
            ELSE Append(cookies, c)
    ) : cookies \in {cookies0}})

\* The first "name=value" entry of document.cookie that starts with name + "=";
\* found = FALSE (null) when there is none.
getCookie(cookies0, name) ==
    The({(
        LET hits == {i \in 1..Len(cookies) : cookies[i].name = name}
        IN  IF hits = {} THEN [found |-> FALSE, value |-> <<>>]
            ELSE [found |-> TRUE,
                  value |-> cookies[CHOOSE i \in hits : \A j \in hits : i <= j].value]
    ) : cookies \in {cookies0}})

(* ------------------------------------------------------------------ *)
(* State                                                                *)
(* ------------------------------------------------------------------ *)
VARIABLES
    app,        \* the fields of the SlidePresentation instance (this.*)
    pc,         \* where init() stands: "boot", "loading", "running" or "error"
    listeners,  \* the event listeners installed so far
    tasks,      \* async calls suspended in loadTexture's fetch, oldest first
    rafQueue,   \* callbacks registered with requestAnimationFrame, in order
    uploads,    \* per path, the GPU textures created in this session
    jar,        \* document.cookie
    window,     \* window.innerWidth / innerHeight
    manifest,   \* what fetching slides.json yields
    gpu,        \* what navigator.gpu offers
    broken,     \* the path whose image cannot be fetched or decoded (0: none)
    log,        \* what the last step did: renders, saves, advances, in order
    hist,       \* history: whether this session advanced, the last cursor saved
    generator   \* the run of the slides.json generator over one folder of slides/

vars == <<app, pc, listeners, tasks, rafQueue, uploads, jar, window,
          manifest, gpu, broken, log, hist, generator>>

\* The mutable part of the state, as one value the operations below transform.
World ==
    [app |-> app, pc |-> pc, listeners |-> listeners, tasks |-> tasks,
     raf |-> rafQueue, uploads |-> uploads, jar |-> jar,
     log |-> <<>>, hist |-> hist]

\* The step leaves the world as `after`.
Become(after) ==
    \E w \in {after} :
        /\ app' = w.app
        /\ pc' = w.pc
        /\ listeners' = w.listeners
        /\ tasks' = w.tasks
        /\ rafQueue' = w.raf
        /\ uploads' = w.uploads
        /\ jar' = w.jar
        /\ log' = w.log
        /\ hist' = w.hist

Min(a, b) == IF a < b THEN a ELSE b
Paths == 0..MaxSlides
NoHistory == [advanced |-> FALSE, saved |-> -1]

\* An entry of the step's log: what happened and the instance as it was then.
Note(w0, what) ==
    The({(
        [w EXCEPT !.log = Append(@, [ev |-> what, app |-> w.app])]
    ) : w \in {w0}})

(* ------------------------------------------------------------------ *)
(* constructor (src/app.js:48-84)                                       *)
(* ------------------------------------------------------------------ *)
Constructed ==
    [slides |-> <<>>,
     currentSlideIndex |-> 0,
     indexKind |-> "integer",
     isAnimating |-> FALSE,
     animationProgress |-> 0,
     throwDirection |-> [x |-> 0, y |-> 0],
     throwRotation |-> 0,
     originalSlideWidth |-> 0,
     originalSlideHeight |-> 0,
     displayWidth |-> 0,
     displayHeight |-> 0,
     nextSlideRotation |-> 0,
     nextSlideOffsetX |-> 0,
     nextSlideOffsetY |-> 0,
     textureCache |-> {},
     currentTexture |-> NoTexture,
     nextTextures |-> <<>>,
     canvasWidth |-> 0,
     canvasHeight |-> 0,
     loadingShown |-> TRUE,
     error |-> ""]

(* ------------------------------------------------------------------ *)
(* Rendering, geometry, errors                                          *)
(* ------------------------------------------------------------------ *)
\* render(): the frame is a function of the instance at the moment of the call,
\* which the log keeps.
render(w) == Note(w, "render")

\* A showError() that leaves the error element hidden and empty.
showErrorHidden(w, message) == [w EXCEPT !.pc = "error"]

\* showError(message)
showError(w, message) ==
    [w EXCEPT !.app.loadingShown = FALSE, !.app.error = message, !.pc = "error"]

\* this.updateCanvasSize(), the closure made by setupCanvas (devicePixelRatio 1).
updateCanvasSize(a0, win) ==
    The({(
        LET maxWidth == win.w - (WINDOW_GAP * 2)
            maxHeight == win.h - (WINDOW_GAP * 2)
            ow == a.originalSlideWidth
            oh == a.originalSlideHeight
            sized ==
                IF ow > 0 /\ oh > 0
                THEN IF maxWidth * oh > ow * maxHeight
                     THEN [a EXCEPT !.displayHeight = maxHeight,
                                    !.displayWidth = (maxHeight * ow) \div oh]
                     ELSE [a EXCEPT !.displayWidth = maxWidth,
                                    !.displayHeight = (maxWidth * oh) \div ow]
                ELSE a
        IN  [sized EXCEPT !.canvasWidth = win.w, !.canvasHeight = win.h]
    ) : a \in {a0}})

\* generateNextSlidePosition(), with the three random draws as `pose`.
generateNextSlidePosition(a, pose) ==
    [a EXCEPT !.nextSlideRotation = pose.rot,
              !.nextSlideOffsetX = pose.x,
              !.nextSlideOffsetY = pose.y]

getRemainingSlides(a0) ==
    The({(
        Len(a.slides) - a.currentSlideIndex
    ) : a \in {a0}})

(* ------------------------------------------------------------------ *)
(* Progress (src/app.js:355-379)                                        *)
(* ------------------------------------------------------------------ *)
\* currentSlideIndex >= slides.length; false for undefined.
IndexAtLeast(v0, n) ==
    The({(
        v.kind \in {"integer", "fraction"} /\ v.num >= n
    ) : v \in {v0}})

\* state.current, and the validation of lines 363-365.
indexFromState(state0, n) ==
    The({(
        IF state.type = "object" /\ state.key = "\"current\""
        THEN IF IndexAtLeast(state.val, n) THEN JsInt(0) ELSE state.val
        ELSE JsUndefined
    ) : state \in {state0}})

\* The try / catch of lines 358-368: a SyntaxError of JSON.parse and the
\* TypeError of null.current leave index 0.
progressFrom(saved0, n) ==
    The({(
        IF saved.found /\ saved.value # <<>>
        THEN IF JsonParse(saved.value).ok /\ JsonParse(saved.value).type # "null"
             THEN indexFromState(JsonParse(saved.value), n)
             ELSE JsInt(0)
        ELSE JsInt(0)
    ) : saved \in {saved0}})

\* loadProgress(): the value currentSlideIndex is left with.
loadProgress(cookies, n) == progressFrom(getCookie(cookies, PROGRESS_COOKIE_NAME), n)

\* A saveProgress() that builds the state and never writes the cookie.
saveProgressUnwritten(w) == Note(w, "save")

\* saveProgress()
saveProgress(w0) ==
    The({(
        LET v == [kind |-> w.app.indexKind, num |-> w.app.currentSlideIndex]
            w1 == [w EXCEPT !.jar = setCookie(@, PROGRESS_COOKIE_NAME, StringifyState(v),
                                              COOKIE_EXPIRY_DAYS),
                            !.hist.saved = w.app.currentSlideIndex]
        IN  Note(w1, "save")
    ) : w \in {w0}})

(* ------------------------------------------------------------------ *)
(* Textures (src/app.js:282-337)                                        *)
(* ------------------------------------------------------------------ *)
cacheHas(a, p) == \E t \in a.textureCache : t.path = p
cacheGet(a, p) == CHOOSE t \in a.textureCache : t.path = p
cacheSet(a, t) ==
    [a EXCEPT !.textureCache = {u \in @ : u.path # t.path} \cup {t}]

\* this.slides[index]
slideAt(a0, index) ==
    The({(
        IF a.indexKind = "integer" /\ index >= 0 /\ index < Len(a.slides)
        THEN a.slides[index + 1] ELSE UndefinedPath
    ) : a \in {a0}})

\* loadTexture(path) on a cache miss: fetch(path) is issued and the caller `k`
\* (an async call: who, where in loadCurrentSlides, its locals) is suspended.
suspendOnFetch(w, k, p) == [w EXCEPT !.tasks = Append(@, [k EXCEPT !.path = p])]

\* loadCurrentSlides(), the preload loop from index i on (lines 298-305).  The
\* result says whether the loop ran to its end or suspended on a fetch.
RECURSIVE preloadFrom(_, _, _)
preloadFrom(w0, k, i) ==
    The({(
        IF i > k.n THEN [w |-> w, done |-> TRUE]
        ELSE LET idx == w.app.currentSlideIndex + i
             IN  IF idx < Len(w.app.slides)
                 THEN LET p == slideAt(w.app, idx)
                      IN  IF cacheHas(w.app, p)
                          THEN preloadFrom(
                                   [w EXCEPT !.app.nextTextures = Append(@, cacheGet(w.app, p))],
                                   k, i + 1)
                          ELSE [w |-> suspendOnFetch(w, [k EXCEPT !.stage = "next", !.i = i], p),
                                done |-> FALSE]
                 ELSE preloadFrom(w, k, i + 1)
    ) : w \in {w0}})

\* Lines 286-295: the current texture, the original dimensions (set once, from
\* the first image loaded), the emptied preload list.
withCurrentTexture(a0, t) ==
    The({(
        [a EXCEPT !.currentTexture = t,
                  !.originalSlideWidth =
                      IF a.originalSlideWidth = 0 \/ a.originalSlideHeight = 0
                      THEN ImageWidth(t.path) ELSE @,
                  !.originalSlideHeight =
                      IF a.originalSlideWidth = 0 \/ a.originalSlideHeight = 0
                      THEN ImageHeight(t.path) ELSE @,
                  !.nextTextures = <<>>]
    ) : a \in {a0}})

\* Line 296 and the loop from i = 1.
preloadStart(w0, k) ==
    The({(
        preloadFrom(w, [k EXCEPT !.n = Min(SLIDES_TO_PRELOAD, getRemainingSlides(w.app))], 1)
    ) : w \in {w0}})

\* loadCurrentSlides() once the current slide's texture `t` is there (lines 286-305).
afterCurrentTexture(w0, k, t) ==
    The({(
        preloadStart([w EXCEPT !.app = withCurrentTexture(w.app, t)], k)
    ) : w \in {w0}})

\* loadCurrentSlides() from its first line.
loadCurrentSlides(w0, k) ==
    The({(
        LET p == slideAt(w.app, w.app.currentSlideIndex)
        IN  IF cacheHas(w.app, p)
            THEN afterCurrentTexture(w, k, cacheGet(w.app, p))
            ELSE [w |-> suspendOnFetch(w, [k EXCEPT !.stage = "current"], p), done |-> FALSE]
    ) : w \in {w0}})

\* A suspended async call: init() or onSlideThrowComplete(), with the locals that
\* outlive the await.
Caller(kind, a0) ==
    The({(
        [kind |-> kind, stage |-> "current", path |-> 0, i |-> 0, n |-> 0,
         oldNextRotation |-> a.nextSlideRotation,
         oldNextOffsetX |-> a.nextSlideOffsetX,
         oldNextOffsetY |-> a.nextSlideOffsetY]
    ) : a \in {a0}})

(* ------------------------------------------------------------------ *)
(* Animation (src/app.js:385-474)                                       *)
(* ------------------------------------------------------------------ *)
\* Math.min(elapsed / duration, 1), in thousandths.
Progress(elapsed, duration) == (Min(elapsed, duration) * 1000) \div duration

\* requestAnimationFrame(animate): the closure and the time since its startTime
\* at the last frame it saw.
Loop(kind) == [kind |-> kind, elapsed |-> 0]

\* An animateSlideIn() that never asks for its first frame.
animateSlideInUnscheduled(w) == w

\* animateThrow() / animateSlideIn() up to their requestAnimationFrame.
animateThrow(w) == [w EXCEPT !.raf = Append(@, Loop("throw"))]
animateSlideIn(w) == [w EXCEPT !.raf = Append(@, Loop("slideIn"))]

\* A throwSlide() that already moves the cursor on.
throwSlideAdvancing(w, t) ==
    [w EXCEPT !.app.isAnimating = TRUE,
              !.app.animationProgress = 0,
              !.app.throwDirection = [x |-> t.x, y |-> t.y],
              !.app.throwRotation = t.rot,
              !.app.currentSlideIndex = @ + 1,
              !.log = Append(@, [ev |-> "throw", app |-> w.app]),
              !.raf = Append(@, Loop("throw"))]

\* throwSlide(), with the random draws as `t`.
throwSlide(w, t) ==
    animateThrow(Note(
        [w EXCEPT !.app.isAnimating = TRUE,
                  !.app.animationProgress = 0,
                  !.app.throwDirection = [x |-> t.x, y |-> t.y],
                  !.app.throwRotation = t.rot],
        "throw"))

\* An advance without the wrap to 0.
advanceNoWrap(a) == [a EXCEPT !.currentSlideIndex = @ + 1]

\* currentSlideIndex++ and the wrap (lines 431-434).
advance(a0) ==
    The({(
        LET next == a.currentSlideIndex + 1
        IN  [a EXCEPT !.currentSlideIndex = IF next >= Len(a.slides) THEN 0 ELSE next]
    ) : a \in {a0}})

\* onSlideThrowComplete() after `await this.loadCurrentSlides()` (lines 439-451).
finishThrowComplete(w, k) ==
    animateSlideIn(Note(
        [w EXCEPT !.app.nextSlideRotation = k.oldNextRotation,
                  !.app.nextSlideOffsetX = k.oldNextOffsetX,
                  !.app.nextSlideOffsetY = k.oldNextOffsetY,
                  !.app.throwDirection = [x |-> 0, y |-> 0],
                  !.app.throwRotation = 0,
                  !.app.isAnimating = TRUE,
                  !.app.animationProgress = 0],
        "slideIn"))

\* Lines 430-436: the cursor moves on and the progress is saved.
advanceAndSave(w0) ==
    The({(
        saveProgress(Note([w EXCEPT !.app = advance(w.app), !.hist.advanced = TRUE],
                          "advance"))
    ) : w \in {w0}})

\* `await this.loadCurrentSlides()`: the call runs on when nothing had to be fetched.
resumeIfLoaded(r0, k) ==
    The({(
        IF r.done THEN finishThrowComplete(r.w, k) ELSE r.w
    ) : r \in {r0}})

\* onSlideThrowComplete() up to its await and, when every texture it needs is
\* cached, through to the end.
onSlideThrowComplete(w0) ==
    The({(
        resumeIfLoaded(
            loadCurrentSlides(advanceAndSave([w EXCEPT !.app.isAnimating = FALSE]),
                              Caller("complete", w.app)),
            Caller("complete", w.app))
    ) : w \in {w0}})

\* Lines 410-416 of animateThrow's frame callback.
throwRendered(w0, elapsed) ==
    The({(
        IF w.app.animationProgress < 1000
        THEN [w EXCEPT !.raf = Append(@, [kind |-> "throw", elapsed |-> elapsed])]
        ELSE onSlideThrowComplete(w)
    ) : w \in {w0}})

throwAt(w, elapsed) ==
    throwRendered(
        render([w EXCEPT !.app.animationProgress = Progress(elapsed, THROW_DURATION)]),
        elapsed)

\* One call of animateThrow's frame callback, dt after the previous one.
throwFrame(w, cb, dt) == throwAt(w, Min(cb.elapsed + dt, THROW_DURATION))

\* Lines 461-470 of animateSlideIn's frame callback.
slideInRendered(w0, elapsed, pose) ==
    The({(
        IF w.app.animationProgress < 1000
        THEN [w EXCEPT !.raf = Append(@, [kind |-> "slideIn", elapsed |-> elapsed])]
        ELSE render(Note(
                 [w EXCEPT !.app = generateNextSlidePosition(
                                       [w.app EXCEPT !.isAnimating = FALSE], pose)],
                 "idle"))
    ) : w \in {w0}})

slideInAt(w, elapsed, pose) ==
    slideInRendered(
        render([w EXCEPT !.app.animationProgress = Progress(elapsed, SLIDE_IN_DURATION)]),
        elapsed, pose)

\* One call of animateSlideIn's frame callback.
slideInFrame(w, cb, dt, pose) ==
    slideInAt(w, Min(cb.elapsed + dt, SLIDE_IN_DURATION), pose)

\* The browser runs the callbacks registered for this frame in order; what they
\* register runs in the next frame.
RECURSIVE runCallbacks(_, _, _, _)
runCallbacks(w0, cbs0, dt, pose) ==
    The({(
        IF cbs = <<>> THEN w
        ELSE runCallbacks(IF Head(cbs).kind = "throw" THEN throwFrame(w, Head(cbs), dt)
                          ELSE slideInFrame(w, Head(cbs), dt, pose),
                          Tail(cbs), dt, pose)
    ) : <<w, cbs>> \in {<<w0, cbs0>>}})

(* ------------------------------------------------------------------ *)
(* init (src/app.js:90-124, 229-276)                                    *)
(* ------------------------------------------------------------------ *)
\* `await this.loadCurrentSlides()` in init(): the cache is empty, it suspends.
initLoad(w0) ==
    The({(
        loadCurrentSlides(w, Caller("init", w.app)).w
    ) : w \in {w0}})

\* init() from `this.loadProgress()` to the await in loadCurrentSlides, with the
\* index loadProgress leaves.
initWithIndex(w0, win, v0) ==
    The({(
        initLoad(Note(
            [w EXCEPT !.app = updateCanvasSize(
                                  [w.app EXCEPT !.currentSlideIndex = v.num,
                                                !.indexKind = v.kind], win),
                      !.listeners = @ \cup {"resize"},
                      !.pc = "loading"],
            "loadProgress"))
    ) : <<w, v>> \in {<<w0, v0>>}})

initFromProgress(w0, win) ==
    The({(
        initWithIndex(w, win, loadProgress(w.jar, Len(w.app.slides)))
    ) : w \in {w0}})

\* init() up to its first suspension that other events can interleave with.
initStart(w0, win) ==
    The({(
        CASE gpu = "unsupported" ->
                showError(w, "WebGPU is not supported in your browser.")
          [] manifest.status = "missing" ->
                showError(w, "Failed to load slide list.")
          [] manifest.status = "unparsable" ->
                showError(w, "SyntaxError")
          [] manifest.slides = <<>> ->
                showError(w, "No slides found in the slide list.")
          [] gpu = "noAdapter" ->
                showError([w EXCEPT !.app.slides = manifest.slides],
                          "Failed to get WebGPU adapter")
          [] OTHER ->
                initFromProgress([w EXCEPT !.app.slides = manifest.slides], win)
    ) : w \in {w0}})

\* init() after `await this.loadCurrentSlides()` (lines 98-102).
initTail(w0, win, pose) ==
    The({(
        render(Note(
            [w EXCEPT !.app = [updateCanvasSize(generateNextSlidePosition(w.app, pose), win)
                                  EXCEPT !.loadingShown = FALSE],
                      !.listeners = @ \cup {"click", "touchstart"},
                      !.pc = "running"],
            "started"))
    ) : w \in {w0}})

(* ------------------------------------------------------------------ *)
(* The slides.json generator                                            *)
(* ------------------------------------------------------------------ *)
\* Most images in a folder of slides/.
MaxImages == 60

\* A calculateGridDimensions whose tests are strict.
calculateGridDimensionsStrict(imageCount) ==
    IF imageCount < 1 THEN [columns |-> 1, rows |-> 1]
    ELSE IF imageCount < 4 THEN [columns |-> 2, rows |-> 2]
    ELSE IF imageCount < 6 THEN [columns |-> 3, rows |-> 2]
    ELSE IF imageCount < 9 THEN [columns |-> 3, rows |-> 3]
    ELSE IF imageCount < 12 THEN [columns |-> 4, rows |-> 3]
    ELSE [columns |-> 4, rows |-> (imageCount + 3) \div 4]

\* calculateGridDimensions(imageCount); Math.ceil(imageCount / 4) of a count
\* is (imageCount + 3) \div 4.
calculateGridDimensions(imageCount) ==
    IF imageCount <= 1 THEN [columns |-> 1, rows |-> 1]
    ELSE IF imageCount <= 4 THEN [columns |-> 2, rows |-> 2]
    ELSE IF imageCount <= 6 THEN [columns |-> 3, rows |-> 2]
    ELSE IF imageCount <= 9 THEN [columns |-> 3, rows |-> 3]
    ELSE IF imageCount <= 12 THEN [columns |-> 4, rows |-> 3]
    ELSE [columns |-> 4, rows |-> (imageCount + 3) \div 4]

\* The generator has not run: no folder listed, nothing written.
NotRun == [images |-> 0, written |-> FALSE, slides |-> <<>>]

\* The entry pushed for a folder with `images` images in it.
gridSlide(images, grid) ==
    [type |-> "grid", images |-> images, columns |-> grid.columns, rows |-> grid.rows]

\* The loop body for a directory entry, and the write of slides.json: a folder
\* without images gets no slide.
generate(g0) ==
    The({(
        [g EXCEPT !.written = TRUE,
                  !.slides = IF g.images > 0
                             THEN <<gridSlide(g.images, calculateGridDimensions(g.images))>>
                             ELSE <<>>]
    ) : g \in {g0}})

(* ------------------------------------------------------------------ *)
(* Steps                                                                *)
(* ------------------------------------------------------------------ *)
InFlight == Len(tasks) + Len(rafQueue)

\* The page is loaded: new SlidePresentation() runs init().
Startup ==
    /\ pc = "boot"
    /\ Become(initStart(World, window))
    /\ UNCHANGED <<window, manifest, gpu, broken, generator>>

\* A click or touchstart on the canvas.
Interaction ==
    /\ "click" \in listeners
    /\ \E t \in Throws :
          IF ~app.isAnimating
          THEN /\ InFlight < MaxInFlight
               /\ Become(throwSlide(World, t))
          ELSE Become(Note(World, "dropped"))
    /\ UNCHANGED <<window, manifest, gpu, broken, generator>>

\* `if (this.currentTexture) this.render()` (lines 260-262).
renderIfTexture(w0) ==
    The({(
        IF w.app.currentTexture # NoTexture THEN render(w) ELSE w
    ) : w \in {w0}})

\* A resize listener that also restarts the running animation.
onResizeRestarting(w, win) ==
    renderIfTexture([w EXCEPT !.app = [updateCanvasSize(@, win)
                                          EXCEPT !.animationProgress = 0]])

\* The resize listener of setupCanvas (lines 258-263).
onResize(w, win) == renderIfTexture([w EXCEPT !.app = updateCanvasSize(@, win)])

\* The window is resized.  The log's "resize" entry keeps the instance as the
\* event found it.
Resize ==
    /\ "resize" \in listeners
    /\ \E win \in WindowSizes :
          /\ window' = win
          /\ Become(onResize(Note(World, "resize"), win))
    /\ UNCHANGED <<manifest, gpu, broken, generator>>

\* The random draws a step makes: those of generateNextSlidePosition when the
\* step reaches it, none otherwise.
Draws(reached) == IF reached THEN Poses ELSE {CHOOSE pose \in Poses : TRUE}

\* An animation frame k ticks after the previous one.
FrameAfter(k) ==
    /\ rafQueue # <<>>
    /\ \E pose \in Draws(\E i \in 1..Len(rafQueue) :
                            /\ rafQueue[i].kind = "slideIn"
                            /\ rafQueue[i].elapsed + k * TickMs >= SLIDE_IN_DURATION) :
          Become(runCallbacks([World EXCEPT !.raf = <<>>], rafQueue, k * TickMs, pose))
    /\ UNCHANGED <<window, manifest, gpu, broken, generator>>

\* An animation frame; two frames may fall within one tick of the clock.
Frame == \E k \in 0..MaxFrameTicks : FrameAfter(k)

\* A frame by which the clock has moved on.
Tick == \E k \in 1..MaxFrameTicks : FrameAfter(k)

Loadable(p) == p # UndefinedPath /\ p # broken
WithoutTask(w, i) ==
    [w EXCEPT !.tasks = SubSeq(@, 1, i - 1) \o SubSeq(@, i + 1, Len(@))]

\* loadTexture after its awaits (lines 317-336): the texture is created and cached.
textureLoaded(w, t) ==
    [w EXCEPT !.uploads[t.path] = @ + 1, !.app = cacheSet(@, t)]

\* loadCurrentSlides() runs on from the await that suspended it.
resumeLoad(w, k, t) ==
    IF k.stage = "current" THEN afterCurrentTexture(w, k, t)
    ELSE preloadFrom([w EXCEPT !.app.nextTextures = Append(@, t)], k, k.i + 1)

\* The caller of loadCurrentSlides() runs on when the loop is through.
resumeCaller(r0, k, win, pose) ==
    The({(
        CASE ~r.done -> r.w
          [] r.done /\ k.kind = "init" -> initTail(r.w, win, pose)
          [] OTHER -> finishThrowComplete(r.w, k)
    ) : r \in {r0}})

fetchDone(w, k, t, win, pose) ==
    resumeCaller(resumeLoad(textureLoaded(w, t), k, t), k, win, pose)

\* A fetch answers and the image decodes, and the suspended call runs on.
FetchDone ==
    /\ \E i \in 1..Len(tasks) :
        \E pose \in Draws(tasks[i].kind = "init") :
          /\ Loadable(tasks[i].path)
          /\ Become(fetchDone(WithoutTask(World, i), tasks[i],
                              Texture(tasks[i].path), window, pose))
    /\ UNCHANGED <<window, manifest, gpu, broken, generator>>

\* loadTexture throws.  init() catches it and shows the error; the promise of
\* onSlideThrowComplete() is rejected and nobody handles it.
fetchFailed(w0, k) ==
    The({(
        IF k.kind = "init" THEN showError(w, "The source image could not be decoded.")
        ELSE Note(w, "unhandledrejection")
    ) : w \in {w0}})

\* A fetch or decode fails.
FetchFail ==
    /\ \E i \in 1..Len(tasks) :
          /\ ~Loadable(tasks[i].path)
          /\ Become(fetchFailed(WithoutTask(World, i), tasks[i]))
    /\ UNCHANGED <<window, manifest, gpu, broken, generator>>

\* The page is loaded again, at once or after the progress cookie expired: the
\* instance, its timers and its GPU resources are gone, document.cookie stays.
Reload ==
    /\ pc # "boot"
    /\ \E expired \in BOOLEAN :
          /\ jar' = IF expired THEN SelectSeq(jar, LAMBDA c : c.name # PROGRESS_COOKIE_NAME)
                    ELSE jar
          /\ hist' = [NoHistory EXCEPT !.saved = IF expired THEN -1 ELSE hist.saved]
    /\ app' = Constructed
    /\ pc' = "boot"
    /\ listeners' = {}
    /\ tasks' = <<>>
    /\ rafQueue' = <<>>
    /\ uploads' = [p \in Paths |-> 0]
    /\ log' = <<>>
    /\ UNCHANGED <<window, manifest, gpu, broken, generator>>

(* ------------------------------------------------------------------ *)
(* Initial states                                                       *)
(* ------------------------------------------------------------------ *)
Cookie(name, value) == [name |-> name, value |-> value, days |-> COOKIE_EXPIRY_DAYS]

\* Values of the progress cookie found at the first startup.
CookieTexts ==
    {StringifyState(JsInt(c)) : c \in -2..(MaxSlides + 1)}
        \cup {<<>>, <<"null">>, <<"{", "}">>, <<"{", "\"current\"", ":", "}">>,
              <<"2">>, <<"{", "\"cursor\"", ":", "1", "}">>,
              <<"{", "\"current\"", ":", "1", ".", "5", "}">>}

Jars ==
    {<<Cookie("theme", <<"1">>)>>}
        \cup {<<Cookie("theme", <<"1">>), Cookie(PROGRESS_COOKIE_NAME, v)>> : v \in CookieTexts}

Manifests ==
    {[status |-> "missing", slides |-> <<>>], [status |-> "unparsable", slides |-> <<>>]}
        \cup {[status |-> "ok", slides |-> [i \in 1..n |-> i]] : n \in 0..MaxSlides}

Init ==
    /\ app = Constructed
    /\ pc = "boot"
    /\ listeners = {}
    /\ tasks = <<>>
    /\ rafQueue = <<>>
    /\ uploads = [p \in Paths |-> 0]
    /\ jar \in Jars
    /\ window = InitialWindow
    /\ manifest \in Manifests
    /\ gpu \in {"unsupported", "noAdapter", "ok"}
    /\ broken \in 0..Min(1, Len(manifest.slides))
    /\ log = <<>>
    /\ hist = NoHistory
    /\ generator = NotRun

Next ==
    \/ Startup
    \/ Interaction
    \/ Resize
    \/ Frame
    \/ FetchDone
    \/ FetchFail
    \/ Reload

Spec == Init /\ [][Next]_vars

(* ------------------------------------------------------------------ *)
(* Fair frames and loads that succeed                                   *)
(* ------------------------------------------------------------------ *)
\* Every image can be fetched and decoded.
FairInit == Init /\ broken = 0

\* One session: the page is not loaded again.
FairNext ==
    \/ Startup
    \/ Interaction
    \/ Resize
    \/ Frame
    \/ FetchDone
    \/ FetchFail

\* The browser keeps delivering frames while callbacks are registered, its clock
\* moves on, and every fetch is answered.
FairSpec == FairInit /\ [][FairNext]_vars /\ WF_vars(Tick) /\ WF_vars(FetchDone)

(* ------------------------------------------------------------------ *)
(* A deck longer than the lookahead                                     *)
(* ------------------------------------------------------------------ *)
\* The shortest deck in which a slide lies beyond the lookahead of the first
\* two cursors: the startup leaves it unloaded, the first completion fetches it.
LongDeck == SLIDES_TO_PRELOAD + 2

\* First visit (no progress cookie), WebGPU available, every image loadable.
LongInit ==
    /\ app = Constructed
    /\ pc = "boot"
    /\ listeners = {}
    /\ tasks = <<>>
    /\ rafQueue = <<>>
    /\ uploads = [p \in 0..LongDeck |-> 0]
    /\ jar = <<Cookie("theme", <<"1">>)>>
    /\ window = InitialWindow
    /\ manifest = [status |-> "ok", slides |-> [i \in 1..LongDeck |-> i]]
    /\ gpu = "ok"
    /\ broken = 0
    /\ log = <<>>
    /\ hist = NoHistory
    /\ generator = NotRun

LongNext ==
    \/ Startup
    \/ Interaction
    \/ Resize
    \/ Frame
    \/ FetchDone

LongSpec == LongInit /\ [][LongNext]_vars

(* ------------------------------------------------------------------ *)
(* One run of the generator                                             *)
(* ------------------------------------------------------------------ *)
\* slides/ holds one folder with any number of images; the page is not open.
GridInit ==
    /\ app = Constructed
    /\ pc = "boot"
    /\ listeners = {}
    /\ tasks = <<>>
    /\ rafQueue = <<>>
    /\ uploads = [p \in Paths |-> 0]
    /\ jar = <<>>
    /\ window = InitialWindow
    /\ manifest = [status |-> "missing", slides |-> <<>>]
    /\ gpu = "ok"
    /\ broken = 0
    /\ log = <<>>
    /\ hist = NoHistory
    /\ generator \in {[NotRun EXCEPT !.images = c] : c \in 0..MaxImages}

\* node generate-slides-json.js
Generate ==
    /\ ~generator.written
    /\ generator' = generate(generator)
    /\ UNCHANGED <<app, pc, listeners, tasks, rafQueue, uploads, jar, window,
                   manifest, gpu, broken, log, hist>>

GridNext == Generate

GridSpec == GridInit /\ [][GridNext]_vars

(* ------------------------------------------------------------------ *)
(* What a render draws                                                  *)
(* ------------------------------------------------------------------ *)
\* CONFIG.NEXT_SLIDE_BRIGHTNESS (0.6), in thousandths.
NEXT_SLIDE_BRIGHTNESS == 600
MAX_STACK_SIZE == 5
\* CONFIG.STACK_DEPTH_OFFSET (0.05), STACK_SCALE_INCREMENT (0.01) and
\* STACK_BASE_SCALE (0.95), in thousandths.
STACK_DEPTH_OFFSET == 50
STACK_SCALE_INCREMENT == 10
STACK_BASE_SCALE == 950
STACK_POSITION_OFFSET == 3

\* The number 1.0 of opacities and eased values, which are kept in millionths.
\* animationProgress, scales and depths are in thousandths; rotations are in
\* millionths of a degree; offsets are in units of 10^-8 (the offsets of a pose
\* are in hundredths and those of a throw in tenths).
One == 1000000

\* 1 - Math.pow(1 - this.animationProgress, 3), in millionths (rounded up to
\* the next millionth).
Eased(p) == One - ((1000 - p) * (1000 - p) * (1000 - p)) \div 1000

\* CONFIG.NEXT_SLIDE_BRIGHTNESS + (1.0 - CONFIG.NEXT_SLIDE_BRIGHTNESS) * eased
Brightness(eased) ==
    NEXT_SLIDE_BRIGHTNESS * 1000 + ((1000 - NEXT_SLIDE_BRIGHTNESS) * eased) \div 1000

\* opacity *= brightness, both in millionths; opacity is 0.0 or 1.0 here.
Dimmed(opacity, brightness) == ((opacity \div 1000) * brightness) \div 1000

\* renderSlide(texture, offsetX, offsetY, scale, rotation, depth, opacity,
\* passEncoder): the uniforms written and the one draw call issued.
renderSlide(texture, offsetX, offsetY, scale, rotation, depth, opacity) ==
    [texture |-> texture, offsetX |-> offsetX, offsetY |-> offsetY, scale |-> scale,
     rotation |-> rotation, depth |-> depth, opacity |-> opacity]

\* this.throwDirection.x !== 0 || this.throwDirection.y !== 0
hasThrowDirection(a) == a.throwDirection.x # 0 \/ a.throwDirection.y # 0

\* A throw plays with the current slide flying away from the centre and
\* fading with the raw progress.
currentSlideThrown(a0, eased0) ==
    The({(
        renderSlide(a.currentTexture,
                    a.throwDirection.x * 10 * eased,
                    a.throwDirection.y * 10 * eased,
                    1000,
                    a.throwRotation * eased,
                    0,
                    One - a.animationProgress * 1000)
    ) : <<a, eased>> \in {<<a0, eased0>>}})

\* A slide-in plays with the new current slide moving from the pose it had on
\* the stack to the centre.
currentSlideSlidingIn(a0, eased0) ==
    The({(
        renderSlide(a.currentTexture,
                    a.nextSlideOffsetX * (One - eased),
                    a.nextSlideOffsetY * (One - eased),
                    1000,
                    a.nextSlideRotation * (One - eased),
                    0,
                    Brightness(eased))
    ) : <<a, eased>> \in {<<a0, eased0>>}})

\* renderCurrentSlide(passEncoder): the draw calls it issues, none or one.
renderCurrentSlide(a0) ==
    The({(
        IF a.currentTexture = NoTexture THEN <<>>
        ELSE IF ~a.isAnimating
             THEN <<renderSlide(a.currentTexture, 0, 0, 1000, 0, 0, One)>>
        ELSE IF hasThrowDirection(a)
             THEN <<currentSlideThrown(a, Eased(a.animationProgress))>>
        ELSE <<currentSlideSlidingIn(a, Eased(a.animationProgress))>>
    ) : a \in {a0}})

\* Math.min(CONFIG.MAX_STACK_SIZE, remaining - 1)
stackSizeOf(a0) ==
    The({(
        Min(MAX_STACK_SIZE, getRemainingSlides(a) - 1)
    ) : a \in {a0}})

\* The opacity of stack slot i before the next slide is dimmed: near the end of
\* the deck the slots whose slidePosition is at or past remaining - 1 fade out.
slotOpacity(remaining0, stackSize, i) ==
    The({(
        IF remaining <= MAX_STACK_SIZE /\ stackSize - i >= remaining - 1 THEN 0 ELSE One
    ) : remaining \in {remaining0}})

\* Slot i > 0: staggered by its offset.
stackSlide(a0, stackSize0, i0) ==
    The({(
        renderSlide(a.nextTextures[i + 1],
                    (stackSize - i) * STACK_POSITION_OFFSET * 100 * One,
                    0 - (stackSize - i) * STACK_POSITION_OFFSET * 100 * One,
                    STACK_BASE_SCALE + i * STACK_SCALE_INCREMENT,
                    0,
                    0 - 500 - i * STACK_DEPTH_OFFSET,
                    slotOpacity(getRemainingSlides(a), stackSize, i))
    ) : <<a, stackSize, i>> \in {<<a0, stackSize0, i0>>}})

\* Slot 0 while a slide-in plays: the next slide eases from its pose to the
\* centre and brightens.
nextSlideSlidingIn(a0, stackSize0, eased0) ==
    The({(
        renderSlide(a.nextTextures[1],
                    a.nextSlideOffsetX * (One - eased),
                    a.nextSlideOffsetY * (One - eased),
                    STACK_BASE_SCALE,
                    a.nextSlideRotation * (One - eased),
                    0 - 500,
                    Dimmed(slotOpacity(getRemainingSlides(a), stackSize, 0),
                           Brightness(eased)))
    ) : <<a, stackSize, eased>> \in {<<a0, stackSize0, eased0>>}})

\* Slot 0 during a throw and at rest: the next slide in its pose, dimmed.
nextSlideAtPose(a0, stackSize0) ==
    The({(
        renderSlide(a.nextTextures[1],
                    a.nextSlideOffsetX * One,
                    a.nextSlideOffsetY * One,
                    STACK_BASE_SCALE,
                    a.nextSlideRotation * One,
                    0 - 500,
                    Dimmed(slotOpacity(getRemainingSlides(a), stackSize, 0),
                           NEXT_SLIDE_BRIGHTNESS * 1000))
    ) : <<a, stackSize>> \in {<<a0, stackSize0>>}})

\* The body of renderStack's loop for slot i.
stackSlot(a0, stackSize, i0) ==
    The({(
        IF i # 0 THEN stackSlide(a, stackSize, i)
        ELSE IF a.isAnimating /\ ~hasThrowDirection(a)
             THEN nextSlideSlidingIn(a, stackSize, Eased(a.animationProgress))
        ELSE nextSlideAtPose(a, stackSize)
    ) : <<a, i>> \in {<<a0, i0>>}})

\* renderStack's loop from slot i down to slot 0.
RECURSIVE stackFrom(_, _, _)
stackFrom(a0, stackSize0, i0) ==
    The({(
        IF i < 0 THEN <<>>
        ELSE (IF i < Len(a.nextTextures) THEN <<stackSlot(a, stackSize, i)>> ELSE <<>>)
                 \o stackFrom(a, stackSize, i - 1)
    ) : <<a, stackSize, i>> \in {<<a0, stackSize0, i0>>}})

\* renderStack(passEncoder): the draw calls it issues, in order.
renderStack(a0) ==
    The({(
        stackFrom(a, stackSizeOf(a), stackSizeOf(a) - 1)
    ) : a \in {a0}})

\* The draw calls of one render pass: the stack, then the current slide.
renderPass(a0) ==
    The({(
        renderStack(a) \o renderCurrentSlide(a)
    ) : a \in {a0}})

(* ------------------------------------------------------------------ *)
(* Properties                                                           *)
(* ------------------------------------------------------------------ *)
\* Largest deck of the worked example of the cursor cycle.
ExampleDeck == 3
\* Largest cursor written and read back as text.
MaxCursor == 12

LogHas(ev) == \E j \in 1..Len(log) : log[j].ev = ev
CountIn(l, ev) == Cardinality({j \in 1..Len(l) : l[j].ev = ev})
LoopsOf(q, kind) == Cardinality({i \in 1..Len(q) : q[i].kind = kind})

\* The animation states of the engine, as the frame loops show them.
Throwing == LoopsOf(rafQueue, "throw") > 0
SlidingIn == LoopsOf(rafQueue, "slideIn") > 0
\* No transition is anywhere between its first frame and its last.
Quiet == tasks = <<>> /\ rafQueue = <<>> /\ ~app.isAnimating

\* The cursor as a JavaScript value.
Cursor(a) == [kind |-> a.indexKind, num |-> a.currentSlideIndex]
CursorInRange(a) ==
    /\ a.indexKind = "integer"
    /\ a.currentSlideIndex >= 0
    /\ a.currentSlideIndex < Len(a.slides)

\* The textures that belong to the cursor: the current slide's, and those of the
\* slides after it, up to SLIDES_TO_PRELOAD of them.
LookaheadLen(a) == Min(SLIDES_TO_PRELOAD, Len(a.slides) - 1 - a.currentSlideIndex)
ShowsCursor(a) ==
    /\ a.currentTexture = Texture(slideAt(a, a.currentSlideIndex))
    /\ a.nextTextures =
          [i \in 1..LookaheadLen(a) |-> Texture(slideAt(a, a.currentSlideIndex + i))]

PoseOf(a) == <<a.nextSlideRotation, a.nextSlideOffsetX, a.nextSlideOffsetY>>

\* C1: an interaction starts a throw only when no transition is in flight: no
\* frame loop is running and no completion is waiting for textures.
C1_ThrowOnlyWhenIdle ==
    [][(log' # <<>> /\ log'[1].ev = "throw") => Quiet]_vars

\* C2: every render of the running engine shows the textures of the cursor as it
\* is at that moment: the current slide's texture and the whole lookahead list,
\* never those of the cursor before the advance.
C2_RendersShowCursor ==
    pc = "running" =>
        \A j \in 1..Len(log) : log[j].ev = "render" => ShowsCursor(log[j].app)

\* n advances, one after the other.
RECURSIVE AdvancedTimes(_, _)
AdvancedTimes(a, n) == IF n = 0 THEN a ELSE AdvancedTimes(advance(a), n - 1)
\* An instance with a deck of n slides and cursor 0.
Deck(n) == [Constructed EXCEPT !.slides = [i \in 1..n |-> i]]

\* C3: every completed throw sets the cursor to (cursor + 1) mod N and leaves
\* the slides in manifest order; from cursor 0, c advances give cursor c for
\* c < N and N advances give 0 again (for N = 3: 0 -> 1 -> 2 -> 0).
C3_AdvanceIsSuccessorModN ==
    /\ \A j \in 1..Len(log) :
          log[j].ev = "advance" =>
              /\ j > 1
              /\ log[j].app.currentSlideIndex =
                    (log[j - 1].app.currentSlideIndex + 1) % Len(log[j].app.slides)
              /\ log[j].app.slides = log[j - 1].app.slides
    /\ (pc \in {"loading", "running"} => app.slides = manifest.slides)
    /\ (pc = "boot" =>
          \A n \in 1..ExampleDeck :
             /\ AdvancedTimes(Deck(n), n).currentSlideIndex = 0
             /\ \A c \in 0..(n - 1) : AdvancedTimes(Deck(n), c).currentSlideIndex = c)

\* A throw on the last slide of a two-slide deck has completed: 1 -> 0.
C3_Wrapped ==
    \E j \in 2..Len(log) :
        /\ log[j].ev = "advance"
        /\ Len(log[j].app.slides) = 2
        /\ log[j - 1].app.currentSlideIndex = 1
        /\ log[j].app.currentSlideIndex = 0

\* C4: whatever the progress cookie holds, loadProgress leaves the cursor an
\* integer in [0, N).
C4_LoadedCursorInRange == pc = "loading" => CursorInRange(app)

\* C5: in a session no path's image is fetched, decoded and uploaded twice.
C5_EachPathUploadedOnce == \A p \in Paths : uploads[p] <= 1

\* What document.cookie holds as progress, parsed.
Persisted == JsonParse(getCookie(jar, PROGRESS_COOKIE_NAME).value)

\* C6: every advance is followed at once by a save of the advanced cursor, and
\* from the first advance on the cursor in the cookie is the cursor in memory.
C6_PersistedIsCursor ==
    /\ \A j \in 1..Len(log) :
          log[j].ev = "advance" =>
              /\ j < Len(log)
              /\ log[j + 1].ev = "save"
              /\ Cursor(log[j + 1].app) = Cursor(log[j].app)
    /\ (hist.advanced =>
          /\ getCookie(jar, PROGRESS_COOKIE_NAME).found
          /\ Persisted.ok
          /\ Persisted.type = "object"
          /\ Persisted.key = "\"current\""
          /\ Persisted.val = Cursor(app))

\* A throw has completed in this session and left the cursor at 1.
C6_Advanced ==
    /\ hist.advanced
    /\ LogHas("advance")
    /\ app.currentSlideIndex = 1
    /\ Persisted.val = JsInt(1)

\* C7: a session that starts while the progress saved by an earlier session is
\* unexpired resumes at the cursor saved last; and for every cursor c, what
\* saveProgress writes for c is read back by loadProgress as c, whatever other
\* cookies there are.
C7_ProgressRestored ==
    /\ ((pc = "loading" /\ hist.saved >= 0) =>
          (app.indexKind = "integer" /\ app.currentSlideIndex = hist.saved))
    /\ (pc = "boot" =>
          \A c \in 0..MaxCursor :
             loadProgress(setCookie(jar, PROGRESS_COOKIE_NAME, StringifyState(JsInt(c)),
                                    COOKIE_EXPIRY_DAYS),
                          c + 1) = JsInt(c))

\* A new session has read the cursor 1 that the session before it saved.
C7_Restored ==
    /\ pc = "loading"
    /\ hist.saved = 1
    /\ ~hist.advanced
    /\ app.currentSlideIndex = 1

\* C8: under fair frames and loads that succeed, a throw that has started is
\* followed by a slide-in and the slide-in by its completion, which leaves the
\* engine idle; and every throw loop that ends advances the cursor exactly once.
C8_ThrowRunsToIdle ==
    /\ [][CountIn(log', "advance") =
              LoopsOf(rafQueue, "throw") + CountIn(log', "throw")
                  - LoopsOf(rafQueue', "throw")]_vars
    /\ (Throwing ~> SlidingIn)
    /\ (SlidingIn ~> (\E j \in 1..Len(log) :
                         log[j].ev = "idle" /\ ~log[j].app.isAnimating))

\* A transition has run to its end: the slide-in completed after an advance and
\* nothing is in flight.
C8_BackToIdle == LogHas("idle") /\ hist.advanced /\ Quiet

\* C9: a resize leaves every field of the instance as the event found it,
\* except the display size and the canvas size.
C9_ResizeChangesOnlyGeometry ==
    (log # <<>> /\ log[1].ev = "resize") =>
        /\ app = [log[1].app EXCEPT !.displayWidth = app.displayWidth,
                                    !.displayHeight = app.displayHeight,
                                    !.canvasWidth = app.canvasWidth,
                                    !.canvasHeight = app.canvasHeight]
        /\ \A j \in 2..Len(log) : log[j].ev = "render" /\ log[j].app = app

\* The window was resized in the middle of a throw, and the geometry changed.
C9_ResizedMidThrow ==
    /\ log # <<>>
    /\ log[1].ev = "resize"
    /\ Len(log) = 2
    /\ log[1].app.canvasWidth # app.canvasWidth
    /\ log[1].app.displayWidth # app.displayWidth
    /\ app.isAnimating
    /\ app.animationProgress > 0
    /\ app.animationProgress < 1000
    /\ Throwing

\* C10: once the engine runs, the next-slot pose changes only in a step in which
\* a slide-in completes.
C10_PoseChangesOnlyAfterSlideIn ==
    [][(pc = "running" /\ pc' = "running" /\ PoseOf(app') # PoseOf(app))
           => (\E j \in 1..Len(log') : log'[j].ev = "idle")]_vars

\* The phase the flags of the instance name: not animating = Idle, animating
\* with a non-zero throw direction = Throwing, animating with a zero one = SlidingIn.
PhaseOf(a) ==
    IF ~a.isAnimating THEN "Idle"
    ELSE IF a.throwDirection.x # 0 \/ a.throwDirection.y # 0 THEN "Throwing"
    ELSE "SlidingIn"

\* C11: at most one frame loop is scheduled, and the flags name its phase:
\* Throwing while a throw loop is scheduled, SlidingIn while a slide-in loop is,
\* Idle while none is.
C11_OneLoopAndFlagsNameIt ==
    /\ Len(rafQueue) <= 1
    /\ (Throwing => PhaseOf(app) = "Throwing")
    /\ (SlidingIn => PhaseOf(app) = "SlidingIn")
    /\ (rafQueue = <<>> => PhaseOf(app) = "Idle")

\* What the j-th render of a step follows: the entry logged before it, or the
\* state the step started from.
Before(l, j) == IF j = 1 THEN app ELSE l[j - 1].app

\* A render that shows the same phase as what it follows shows at least as
\* much progress.
NotReset(prev, cur) ==
    (cur.isAnimating /\ PhaseOf(prev) = PhaseOf(cur))
        => cur.animationProgress >= prev.animationProgress

\* C12: within a transition the progress seen by successive renders never
\* decreases and is never reset before the transition has completed; the
\* completion of a throw and the end of a slide-in follow a render at progress 1.
C12_ProgressNeverDecreases ==
    [][\A j \in 1..Len(log') :
          /\ log'[j].ev = "render" => NotReset(Before(log', j), log'[j].app)
          /\ log'[j].ev \in {"advance", "idle"} =>
                 /\ j > 1
                 /\ log'[j - 1].ev = "render"
                 /\ log'[j - 1].app.animationProgress = 1000]_vars

\* A completion is waiting for the fetch of a lookahead slide: the texture of
\* the slide it promoted is in place, its slide-in has not begun.
WaitsForLookahead ==
    \E i \in 1..Len(tasks) : tasks[i].kind = "complete" /\ tasks[i].stage = "next"

\* C13: once a throw has completed and the texture of the promoted slide is
\* there, the slide-in begins; no completion waits for a lookahead texture.
C13_SlideInNeverWaitsForLookahead == ~WaitsForLookahead

\* slides.json is missing, is not JSON, or lists no slide.
ManifestUnusable == manifest.status # "ok" \/ manifest.slides = <<>>

\* The error is on the page and the engine is inert: no listener, no pending
\* fetch, no frame loop, nothing rendered, no transition.
SurfacedError ==
    /\ pc = "error"
    /\ app.error # ""
    /\ ~app.loadingShown
    /\ listeners = {}
    /\ tasks = <<>>
    /\ rafQueue = <<>>
    /\ log = <<>>
    /\ app.currentTexture = NoTexture
    /\ ~app.isAnimating

\* C14: with a missing, unparsable or empty manifest the startup ends in the
\* error state: the error is shown, nothing is fetched again, no interaction
\* listener is installed, and from then on nothing is rendered and no
\* transition starts; only loading the page again leaves that state.
C14_ManifestFailureIsSurfaced ==
    /\ []((ManifestUnusable /\ pc # "boot") => SurfacedError)
    /\ [][(ManifestUnusable /\ pc = "error") => (pc' = "boot" /\ log' = <<>>)]_vars

\* The startup found no slides.json and has shown the error.
C14_MissingManifestShown ==
    /\ manifest.status = "missing"
    /\ pc = "error"
    /\ app.error = "Failed to load slide list."

\* The step is the failure of the i-th pending load: its fetch or decode throws
\* and the load is gone.
LoadFails(i) ==
    /\ ~Loadable(tasks[i].path)
    /\ pc' # "boot"
    /\ tasks' = SubSeq(tasks, 1, i - 1) \o SubSeq(tasks, i + 1, Len(tasks))

\* C15: whenever the load of a texture fails, at startup or in the completion
\* of a throw, the error is shown to the user, and the load is not tried again.
C15_TextureFailureIsSurfaced ==
    [][\A i \in 1..Len(tasks) :
          LoadFails(i) => (pc' = "error" /\ app'.error # "" /\ ~app'.loadingShown)]_vars

\* The draw call of the current slide at progress p of a throw: opacity 1 - p
\* with the raw progress, offset and rotation scaled by the eased progress.
ThrownAt(a, p) ==
    [texture |-> a.currentTexture,
     offsetX |-> a.throwDirection.x * 10 * Eased(p),
     offsetY |-> a.throwDirection.y * 10 * Eased(p),
     scale |-> 1000,
     rotation |-> a.throwRotation * Eased(p),
     depth |-> 0,
     opacity |-> (1000 - p) * 1000]

\* C16: while a throw plays, a render at progress p draws the current slide
\* with opacity exactly 1 - p (the raw progress) and with offset and rotation
\* equal to throwDirection and throwRotation times the eased value 1 - (1 - p)^3.
C16_ThrowFadesWithRawProgress ==
    (Throwing /\ app.currentTexture # NoTexture) =>
        renderCurrentSlide(app) = <<ThrownAt(app, app.animationProgress)>>

\* The engine is at rest on a slide that has a successor in the deck.
IdleWithNext == pc = "running" /\ Quiet /\ getRemainingSlides(app) >= 2

\* The draw call of the next slide at rest: in its pose, dimmed to
\* NEXT_SLIDE_BRIGHTNESS.
NextSlideAtRest(a) ==
    [texture |-> a.nextTextures[1],
     offsetX |-> a.nextSlideOffsetX * One,
     offsetY |-> a.nextSlideOffsetY * One,
     scale |-> STACK_BASE_SCALE,
     rotation |-> a.nextSlideRotation * One,
     depth |-> 0 - 500,
     opacity |-> NEXT_SLIDE_BRIGHTNESS * 1000]

LastOf(s) == s[Len(s)]

\* C17: in every idle state with at least two slides remaining, slot 0 (the
\* last draw call of the stack) is the next slide in its pose with opacity
\* NEXT_SLIDE_BRIGHTNESS, also when no more than MAX_STACK_SIZE slides remain.
C17_NextSlideVisibleAtRest ==
    IdleWithNext =>
        /\ renderStack(app) # <<>>
        /\ LastOf(renderStack(app)) = NextSlideAtRest(app)

\* The grid the table of the specification gives for c images: the columns and
\* the rows by the interval c lies in, and beyond 12 images four columns and
\* the least number of rows that holds them.
TableColumns(c) ==
    IF c \in 0..1 THEN 1 ELSE IF c \in 2..4 THEN 2 ELSE IF c \in 5..9 THEN 3 ELSE 4
TableRows(c) ==
    IF c \in 0..1 THEN 1
    ELSE IF c \in 2..6 THEN 2
    ELSE IF c \in 7..12 THEN 3
    ELSE CHOOSE r \in 1..c : 4 * r >= c /\ 4 * (r - 1) < c
Table(c) == [columns |-> TableColumns(c), rows |-> TableRows(c)]

VisibleSlots(a) == IF stackSizeOf(a) < 0 THEN 0 ELSE stackSizeOf(a)

\* The draw calls d of a render of instance a with K visible slots: one per
\* slot, slot K - 1 first and slot 0 last, each nearer than the one before it,
\* and then the current slide in front of them all.
BackToFront(a, d, K) ==
    /\ Len(d) = K + 1
    /\ \A j \in 1..K :
          /\ d[j].texture = a.nextTextures[K - j + 1]
          /\ d[j].depth < d[j + 1].depth
    /\ d[K + 1].texture = a.currentTexture
    /\ d[K + 1].depth = 0

\* C19: every render draws back to front: one draw call per visible stack
\* slot, from slot K - 1 down to slot 0 with K = min(MAX_STACK_SIZE,
\* remaining - 1), the depth receding with the slot index, and the current
\* slide after all of them.
C19_RendersDrawBackToFront ==
    \A j \in 1..Len(log) :
        log[j].ev = "render" =>
            BackToFront(log[j].app, renderPass(log[j].app), VisibleSlots(log[j].app))

\* The draw calls d of a stack, farthest slot first: each nearer slot is drawn
\* larger than the one behind it, and of two staggered slots (slot 0 lies in
\* its pose instead) the farther one is offset more.
NearerLargerFartherStaggered(d) ==
    \A j \in 1..(Len(d) - 1) :
        /\ d[j + 1].scale > d[j].scale
        /\ (j + 1 < Len(d) => d[j].offsetX > d[j + 1].offsetX)

\* C20: among the visible stack slots the scale strictly increases as the slot
\* index decreases (a nearer slot is slightly larger), and the stagger offset
\* is larger for farther slots.
C20_NearerSlotsLarger ==
    \A j \in 1..Len(log) :
        log[j].ev = "render" => NearerLargerFartherStaggered(renderStack(log[j].app))

\* The engine is Idle or Throwing with nothing else under way: no load is
\* pending, and either nothing is scheduled or only throw loops are.
AtRestOrThrowing ==
    /\ pc = "running"
    /\ tasks = <<>>
    /\ (Quiet \/ (Throwing /\ ~SlidingIn))

\* C21: in every state that is Idle or Throwing the current texture is the
\* texture of slides[cursor] and the lookahead list holds exactly
\* min(SLIDES_TO_PRELOAD, N - cursor - 1) textures, entry i that of
\* slides[cursor + 1 + i], without duplicates or extra entries.
C21_TexturesFollowCursor == AtRestOrThrowing => ShowsCursor(app)

\* The entries of log l that are advances come right after the render of a
\* throw at progress 1: they belong to the completion of a throw.
AdvancesCompleteThrows(l) ==
    \A j \in 1..Len(l) :
        l[j].ev = "advance" =>
            /\ j > 1
            /\ l[j - 1].ev = "render"
            /\ l[j - 1].app.animationProgress = 1000

\* C22: after startup the cursor changes only in the completion of a throw: a
\* step moves it by exactly the advances of the completions in it, and the
\* start of a throw, the frames of both animations, the end of a slide-in, the
\* new pose, renders, texture loads and resizes leave cursor and slides alone.
C22_CursorMovesOnlyInCompletion ==
    [][(pc = "running" /\ pc' # "boot") =>
          /\ app'.slides = app.slides
          /\ Cursor(app') = Cursor(AdvancedTimes(app, CountIn(log', "advance")))
          /\ CountIn(log', "advance") <= LoopsOf(rafQueue, "throw")
          /\ AdvancesCompleteThrows(log')]_vars

\* A throw was started, has played and completed, its slide-in has ended, and
\* the cursor stands one slide on.
C22_MovedOnceByCompletion ==
    /\ pc = "running"
    /\ hist.advanced
    /\ LogHas("idle")
    /\ app.currentSlideIndex = 1
    /\ Len(app.slides) = 2

\* The draw call of the promoted slide where its slide-in starts: in the pose
\* it had as the next slide, with brightness NEXT_SLIDE_BRIGHTNESS.
PromotedAtPose(a) ==
    [texture |-> a.currentTexture,
     offsetX |-> a.nextSlideOffsetX * One,
     offsetY |-> a.nextSlideOffsetY * One,
     scale |-> 1000,
     rotation |-> a.nextSlideRotation * One,
     depth |-> 0,
     opacity |-> NEXT_SLIDE_BRIGHTNESS * 1000]

\* The draw call of the current slide at rest: centred, upright, opaque.
CurrentAtRest(a) ==
    [texture |-> a.currentTexture, offsetX |-> 0, offsetY |-> 0, scale |-> 1000,
     rotation |-> 0, depth |-> 0, opacity |-> One]

\* The slide-in of log l ends on a render of the current slide at rest, the
\* same draw call as that of the idle render after it.
SlideInEndsAtRest(l) ==
    \A j \in 2..(Len(l) - 1) :
        l[j].ev = "idle" =>
            /\ l[j - 1].ev = "render"
            /\ renderCurrentSlide(l[j - 1].app) = <<CurrentAtRest(l[j - 1].app)>>
            /\ renderCurrentSlide(l[j + 1].app) = renderCurrentSlide(l[j - 1].app)

\* C23: the easing f(p) = 1 - (1 - p)^3 has f(0) = 0, f(1) = 1 and never
\* decreases from one progress value to the next; so at progress 0 of a
\* slide-in the promoted slide is drawn in the captured pose with brightness
\* 0.6, and at progress 1 centred, upright and opaque, as it is drawn at rest.
C23_EasingMeetsPoseAndRest ==
    /\ (pc = "boot" =>
          /\ Eased(0) = 0
          /\ Eased(1000) = One
          /\ \A p \in 0..999 : Eased(p) <= Eased(p + 1))
    /\ ((SlidingIn /\ app.animationProgress = 0 /\ app.currentTexture # NoTexture) =>
          renderCurrentSlide(app) = <<PromotedAtPose(app)>>)
    /\ SlideInEndsAtRest(log)

====
